---- MODULE Spec2Model ----
(***************************************************************************)
(* A model of fstark/mediaviewer (media_viewer.py, fix_file_types.py).     *)
(*                                                                         *)
(* Spec      : the preview cache: MediaFile.get_preview, generate_preview, *)
(*             generate_video_preview, build_cache's worker pool and the   *)
(*             single-threaded HTTP server's /preview/<id> requests.       *)
(* SpecRange : the range file server, serve_media_by_id/serve_full_file.   *)
(* SpecWarm  : build_cache alone, with the scheduling of its threads.      *)
(* SpecServer: the server with both endpoints, for the ids it refuses.     *)
(* SpecEndpoints: the same, the served file changing behind the server.    *)
(* SpecFrames: one call of extract_video_frames.                           *)
(* SpecGeometry: one call of generate_preview or resize_and_crop_frame.    *)
(* SpecFix   : one run of fix_file_types' process_directory.               *)
(***************************************************************************)
EXTENDS Integers, Sequences, FiniteSets, TLC

(***************************************************************************)
(* Bounds of the model.                                                    *)
(***************************************************************************)
\* longest catalog handed to build_cache / the request handler
MaxCatalog == 2
\* size of build_cache's thread pool, min(8, os.cpu_count() or 4)
PoolSize == 2
\* number of /preview/<id> requests the server handles
MaxRequests == 2

(***************************************************************************)
(* Paths, kinds and keys.                                                  *)
(***************************************************************************)
\* A path is <<stem, extension>>; the extension is what the code tests.
Paths == { <<"a", "png">>, <<"b", "mp4">>, <<"c", "gif">> }

\* str.lower() on the extensions the model uses
Lower(ext) ==
    CASE ext = "PNG" -> "png"
      [] ext = "JPG" -> "jpg"
      [] ext = "JPEG" -> "jpeg"
      [] ext = "GIF" -> "gif"
      [] ext = "MP4" -> "mp4"
      [] ext = "M4V" -> "m4v"
      [] OTHER -> ext

\* MediaFile.check_is_video: path.lower().endswith(('.mp4', '.m4v'))
check_is_video(path) == Lower(path[2]) \in {"mp4", "m4v"}

\* MediaFile.md5: the hex digest of the path string, never of the content
md5(path) == <<"md5", path[1], path[2]>>

\* get_preview's dispatch on the file name: the extension of the preview file
PreviewExt(path) ==
    IF check_is_video(path) \/ Lower(path[2]) = "gif" THEN "gif"
    ELSE IF Lower(path[2]) \in {"png", "jpg", "jpeg"} THEN "png"
    ELSE "none"

\* a mutant of PreviewMime: image/gif for the videos only
PreviewMime_videoOnly(path) ==
    IF check_is_video(path) THEN "image/gif" ELSE "image/png"

\* the content type get_preview returns beside the bytes
PreviewMime(path) ==
    IF check_is_video(path) \/ Lower(path[2]) = "gif" THEN "image/gif"
    ELSE "image/png"

\* preview_path = f'/tmp/mediaviewercache/previews/{self.md5}.<ext>'
preview_path(path) == <<md5(path), PreviewExt(path)>>

PreviewPaths == { preview_path(p) : p \in Paths }

(***************************************************************************)
(* Files of the previews store and what a call returns.                    *)
(***************************************************************************)
NoData == <<"", "">>
Absent == [st |-> "absent", data |-> NoData]
\* a file that exists but whose bytes are not (yet) a whole encoded image
Partial == [st |-> "partial", data |-> NoData]
Complete(d) == [st |-> "complete", data |-> d]

\* Image.new('RGB', (320, 200), color='#333333') saved as GIF
Placeholder == <<"gif", "placeholder">>

\* what get_preview returns: None, or (content_type, content)
None == [ok |-> FALSE, mime |-> "", st |-> "", data |-> NoData]
Some(mime, file) == [ok |-> TRUE, mime |-> mime, st |-> file.st, data |-> file.data]

\* what a call finds behind its path when it opens the source: one of two
\* contents, or a file that cannot be decoded (corrupt, locked, gone).  The
\* environment may replace the file between any two calls.
SrcStates == {"v1", "v2", "bad"}

Server == 0
Tasks == 1..MaxCatalog
Threads == {Server} \cup Tasks

\* a pool task finds the file as the scan left it, or cannot decode it; a
\* request, which may come much later, may also find it replaced
SrcSeen(t) == IF t = Server THEN SrcStates ELSE {"v1", "bad"}

VARIABLES
    catalog,     \* media_files: the ordered list of paths
    phase,       \* "warm" while build_cache runs, then "serve"
    store,       \* the previews directory: preview path -> file
    th,          \* per thread: position in get_preview and its locals
    completedQ,  \* futures in the order they completed, not yet yielded
    early,       \* futures that were done when as_completed was called, not yet yielded
    progress,    \* the (idx, task) pairs build_cache has printed
    requests,    \* number of /preview requests handled so far
    response,    \* the last response of the server
    genCalls,    \* per preview path: invocations of its generator
    returned,    \* per preview path: some get_preview call has returned
    lastFailed,  \* per preview path: the last request's generation failed with None
    warmFailed,  \* per preview path: a build_one call logged an error or got None
    file_size,   \* MediaFile.file_size of the file /media/0 serves, set at the scan
    disk,        \* that file's size on disk now, -1 when it is gone
    rq,          \* the last GET /media/<id> request the handler took
    rs,          \* what the handler sent for it
    ev,          \* one call of extract_video_frames: its position and locals
    gp,          \* one call of generate_preview or resize_and_crop_frame
    fx,          \* one run of fix_file_types' process_directory
    tree         \* the directory that run works on: path -> content

cacheVars == <<catalog, phase, store, th, completedQ, early, progress,
               requests, response, genCalls, returned, lastFailed, warmFailed>>
rangeVars == <<file_size, disk, rq, rs>>
pureVars == <<ev, gp, fx, tree>>
vars == <<cacheVars, rangeVars, pureVars>>

\* a thread that is not inside get_preview.  decodeFailed and saveFailed record
\* that the call's decoding raised and that one of its Image.save calls raised
\* (after the return they are kept for the server's call only).
Fresh(pc) ==
    [pc |-> pc, path |-> <<"", "">>, content |-> "", pending |-> NoData, stage |-> "", fd |-> "",
     created |-> FALSE, invoked |-> FALSE, found |-> FALSE, seen |-> Absent, sawWriter |-> FALSE, overlap |-> {}, result |-> None,
     decodeFailed |-> FALSE, saveFailed |-> FALSE]

NoResponse == [status |-> 0, ctype |-> "", body |-> NoData, st |-> ""]

\* os.path.exists(preview_path)
Exists(pp) == store[pp].st # "absent"

\* threads inside get_preview for preview path pp
Active(pp) ==
    { u \in Threads : th[u].pc \in {"exists1", "generate", "write", "exists2"}
                      /\ preview_path(th[u].path) = pp }

\* threads that hold pp open for writing
Writers(pp) ==
    { u \in Threads : th[u].pc = "write" /\ preview_path(th[u].path) = pp }

\* build_cache: images = non-video files with an image extension, videos = the rest
images(cat) ==
    SelectSeq(cat, LAMBDA p : ~check_is_video(p)
                               /\ Lower(p[2]) \in {"png", "jpg", "jpeg", "gif"})
videos(cat) == SelectSeq(cat, LAMBDA p : check_is_video(p))
\* all_files = images + videos
all_files(cat) == images(cat) \o videos(cat)

\* the order of paths that sorted() uses (scan_for_media_files, line 1048)
PathLeq(p, q) == p[1] = q[1] \/ (p[1] = "a") \/ (p[1] = "b" /\ q[1] = "c")

\* the catalogs: sorted by path; an entry may repeat (build_cache takes any list)
Catalogs ==
    { c \in UNION { [1..n -> Paths] : n \in 1..MaxCatalog } :
        \A i \in 1..(Len(c) - 1) : PathLeq(c[i], c[i + 1]) }

(***************************************************************************)
(* The range file server: requests, headers and replies.                   *)
(***************************************************************************)
\* longest Range header the model sends, in characters
MaxHdrLen == 4
\* largest file size (bytes) at the scan
MaxFileSize == 2

\* The characters of a Range header.  "U" stands for the unit prefix 'bytes=',
\* "x" for a letter; the empty header stands for an absent or empty one.
HdrDigits == {"0", "2"}
HdrChars == {"U", "-", ",", "x"} \cup HdrDigits
Headers == UNION { [1..n -> HdrChars] : n \in 0..MaxHdrLen }

\* the <id> texts of GET /media/<id> and GET /preview/<id>
IdTexts == {"-1", "0", "1", "2", "3", "abc"}
\* int(path[7:]), int(path[9:]): the texts int() accepts, and their values
IsIntText(x) == x \in {"-1", "0", "1", "2", "3"}
IntText(x) ==
    CASE x = "-1" -> -1 [] x = "0" -> 0 [] x = "1" -> 1 [] x = "2" -> 2 [] x = "3" -> 3

NoRequest == [taken |-> FALSE, id |-> "", hdr |-> <<>>, hangup |-> FALSE]
NoReply ==
    [statuses |-> <<>>, content_range |-> <<>>, accept_ranges |-> FALSE,
     content_length |-> -1, body |-> <<>>, parsed |-> <<>>]

\* a mutant of InCatalog: the ids Python's list indexing accepts
InCatalog_negative(id) == 0 - Len(catalog) <= id /\ id < Len(catalog)

\* lines 386 and 452: `if 0 <= media_id < len(self.media_files)`
InCatalog(id) == 0 <= id /\ id < Len(catalog)

\* self.media_files[media_id]: Python indexes from 0, a negative index counts
\* from the end
media_files(id) == catalog[(id % Len(catalog)) + 1]

\* the paths of the directory fix_file_types works on: <<stem, extension>>
FixPaths == {"p", "q"} \X {"jpg", "png", "txt"}

\* no call of generate_preview / resize_and_crop_frame is under way
NoRender ==
    [pc |-> "none", fn |-> "", src |-> <<0, 0>>, size |-> <<0, 0>>,
     resized |-> <<0, 0>>, box |-> <<0, 0, 0, 0>>, raised |-> ""]

\* an empty directory
NoTree == [p \in FixPaths |-> "absent"]

\* fix_file_types is not running, and no directory is looked at
NoRun ==
    [pc |-> "none", dry_run |-> FALSE, prune |-> FALSE, todo |-> {},
     files_processed |-> 0, files_renamed |-> 0, files_removed |-> 0,
     files_unrecognized |-> 0, last |-> <<>>, before |-> NoTree]

\* no call of extract_video_frames is under way
NoCall ==
    [pc |-> "none", opened |-> FALSE, count |-> 0, total_frames |-> 0,
     frame_indices |-> <<>>, reads |-> <<>>, frames |-> <<>>, raised |-> "",
     saved |-> FALSE, placeholder |-> FALSE, processed_frames |-> <<>>]

\* the server and the cache builder call the functions below inside the
\* generators; where they are looked at on their own, no call is under way
PureIdle ==
    /\ ev = NoCall
    /\ gp = NoRender
    /\ fx = NoRun
    /\ tree = NoTree

Init ==
    /\ PureIdle
    /\ catalog \in Catalogs
    /\ phase \in {"warm", "serve"}
    /\ store \in { f \in [PreviewPaths -> {Absent} \cup {Complete(<<e, "v1">>) : e \in {"png", "gif"}}] :
                     \A pp \in PreviewPaths :
                        \/ f[pp] = Absent
                        \/ /\ f[pp].data[1] = pp[2]
                           /\ \E i \in 1..Len(catalog) : preview_path(catalog[i]) = pp }
    /\ th = [t \in Threads |->
               IF t = Server THEN Fresh("idle")
               ELSE IF phase = "warm" /\ t <= Len(all_files(catalog))
                    THEN [Fresh("queued") EXCEPT !.path = all_files(catalog)[t]]
                    ELSE Fresh("unused")]
    /\ completedQ = <<>>
    /\ progress = <<>>
    /\ requests = 0
    /\ response = NoResponse
    /\ genCalls = [pp \in PreviewPaths |-> 0]
    /\ returned = [pp \in PreviewPaths |-> FALSE]
    /\ lastFailed = [pp \in PreviewPaths |-> FALSE]
    /\ early = {}
    /\ warmFailed = [pp \in PreviewPaths |-> FALSE]
    /\ file_size = 1
    /\ disk = 1
    /\ rq = NoRequest
    /\ rs = NoReply

(***************************************************************************)
(* MediaFile.get_preview, step by step.  A thread t is the server's        *)
(* request thread or one build_one task of build_cache's pool.             *)
(***************************************************************************)
\* serve_media_preview lines 395-403: the preview, or serve_placeholder's SVG
ServeResponse(r) ==
    IF r.ok
    THEN [status |-> 200, ctype |-> r.mime, body |-> r.data, st |-> r.st]
    ELSE [status |-> 200, ctype |-> "image/svg+xml",
          body |-> <<"svg", "placeholder">>, st |-> "complete"]

\* get_preview returns res and its locals are gone: a task's future completes;
\* the server answers and is ready for the next request
Return(t, pp, res, sawW) ==
    /\ th' = [th EXCEPT ![t] =
                [Fresh(IF t = Server THEN "idle" ELSE "done") EXCEPT
                    !.path = th[t].path, !.invoked = th[t].invoked,
                    !.found = th[t].found, !.overlap = th[t].overlap,
                    !.seen = th[t].seen,
                    !.decodeFailed = (t = Server /\ th[t].decodeFailed),
                    !.saveFailed = (t = Server /\ th[t].saveFailed),
                    !.content = IF t = Server THEN th[t].content ELSE "",
                    !.result = res, !.sawWriter = sawW]]
    /\ returned' = [returned EXCEPT ![pp] = TRUE]
    /\ completedQ' = IF t = Server THEN completedQ ELSE Append(completedQ, t)
    /\ response' = IF t = Server THEN ServeResponse(res) ELSE response
    /\ lastFailed' = IF t = Server
                     THEN [lastFailed EXCEPT ![pp] = th[t].invoked /\ ~res.ok]
                     ELSE lastFailed
    /\ warmFailed' = IF t # Server /\ (th[t].saveFailed \/ (th[t].invoked /\ ~res.ok))
                     THEN [warmFailed EXCEPT ![pp] = TRUE]
                     ELSE warmFailed

\* mutants of NeedsGeneration: a failure remembered; the test left out; an
\* entry made from the first content of the file taken for out of date
NeedsGeneration_negative(pp) == ~Exists(pp) /\ ~lastFailed[pp]
NeedsGeneration_always(pp) == TRUE
NeedsGeneration_revalidate(pp) == ~Exists(pp) \/ store[pp].data[2] = "v1"

\* `if not os.path.exists(preview_path)`: whether the generator is called
NeedsGeneration(pp) == ~Exists(pp)

\* lines 82-88 / 100-105: the first existence test and the call of the generator
get_preview_lookup(t) ==
    LET pp == preview_path(th[t].path) IN
    /\ th[t].pc = "exists1"
    /\ IF PreviewExt(th[t].path) = "none"
       THEN /\ Return(t, pp, None, FALSE)
            /\ UNCHANGED genCalls
       ELSE IF NeedsGeneration(pp)
       THEN /\ \E s \in SrcSeen(t) :
                 th' = [th EXCEPT ![t].pc = "generate", ![t].invoked = TRUE,
                                  ![t].found = Exists(pp), ![t].content = s,
                                  ![t].seen = IF t = Server THEN store[pp] ELSE Absent]
            /\ genCalls' = [genCalls EXCEPT ![pp] = @ + 1]
            /\ UNCHANGED <<returned, completedQ, response, lastFailed, warmFailed>>
       ELSE /\ \E s \in (IF t = Server THEN SrcStates ELSE {""}) :
                 th' = [th EXCEPT ![t].pc = "exists2", ![t].found = Exists(pp),
                                  ![t].content = s,
                                  ![t].seen = IF t = Server THEN store[pp] ELSE Absent]
            /\ UNCHANGED <<genCalls, returned, completedQ, response, lastFailed, warmFailed>>
    /\ UNCHANGED <<catalog, phase, store, early, progress, requests>>
    /\ UNCHANGED <<rangeVars, pureVars>>

\* Image.save(preview_path) opens the file "w+b" in place, which creates or
\* truncates it: bytes other writers had written to it are gone.
SaveOpen(t, pp, data, stage) ==
    /\ store' = [store EXCEPT ![pp] = Partial]
    /\ th' = [u \in Threads |->
                IF u = t
                THEN [th[u] EXCEPT !.pc = "write", !.fd = "ok", !.pending = data,
                                   !.stage = stage, !.created = ~Exists(pp),
                                   !.decodeFailed = (stage = "placeholder")]
                ELSE IF u \in Writers(pp) /\ th[u].fd = "ok"
                THEN [th[u] EXCEPT !.fd = "clobbered"]
                ELSE th[u]]

\* a mutant of generate_preview: a decode failure absorbed into a placeholder
generate_preview_absorb(t) ==
    /\ th[t].pc = "generate"
    /\ PreviewExt(th[t].path) = "png"
    /\ IF th[t].content = "bad"
       THEN SaveOpen(t, preview_path(th[t].path), Placeholder, "placeholder")
       ELSE SaveOpen(t, preview_path(th[t].path), <<"png", th[t].content>>, "image")
    /\ UNCHANGED <<catalog, phase, completedQ, early, progress, requests,
                   response, genCalls, returned, lastFailed, warmFailed>>
    /\ UNCHANGED <<rangeVars, pureVars>>

\* generate_preview lines 122-143: Image.open, resize and crop in memory, then
\* img.save.  An unreadable source raises; get_preview (line 106) catches it.
generate_preview(t) ==
    /\ th[t].pc = "generate"
    /\ PreviewExt(th[t].path) = "png"
    /\ IF th[t].content = "bad"
       THEN /\ th' = [th EXCEPT ![t].pc = "exists2", ![t].decodeFailed = TRUE]
            /\ UNCHANGED store
       ELSE SaveOpen(t, preview_path(th[t].path), <<"png", th[t].content>>, "image")
    /\ UNCHANGED <<catalog, phase, completedQ, early, progress, requests,
                   response, genCalls, returned, lastFailed, warmFailed>>
    /\ UNCHANGED <<rangeVars, pureVars>>

\* a mutant of generate_video_preview: a decode failure raised to get_preview
generate_video_preview_raise(t) ==
    /\ th[t].pc = "generate"
    /\ PreviewExt(th[t].path) = "gif"
    /\ IF th[t].content = "bad"
       THEN /\ th' = [th EXCEPT ![t].pc = "exists2", ![t].decodeFailed = TRUE]
            /\ UNCHANGED store
       ELSE SaveOpen(t, preview_path(th[t].path), <<"gif", th[t].content>>, "frames")
    /\ UNCHANGED <<catalog, phase, completedQ, early, progress, requests,
                   response, genCalls, returned, lastFailed, warmFailed>>
    /\ UNCHANGED <<rangeVars, pureVars>>

\* generate_video_preview lines 222-242 and 244-249: extract and resize the
\* frames and save the GIF; any exception is caught and a placeholder frame is
\* saved to the same path instead.
generate_video_preview(t) ==
    /\ th[t].pc = "generate"
    /\ PreviewExt(th[t].path) = "gif"
    /\ IF th[t].content = "bad"
       THEN SaveOpen(t, preview_path(th[t].path), Placeholder, "placeholder")
       ELSE SaveOpen(t, preview_path(th[t].path), <<"gif", th[t].content>>, "frames")
    /\ UNCHANGED <<catalog, phase, completedQ, early, progress, requests,
                   response, genCalls, returned, lastFailed, warmFailed>>
    /\ UNCHANGED <<rangeVars, pureVars>>

\* the file after writer t has written its last byte
Written(t, pp) ==
    IF th[t].fd = "unlinked" THEN store[pp]
    ELSE IF th[t].fd = "clobbered"
    THEN (IF store[pp] = Complete(th[t].pending) THEN store[pp] ELSE Partial)
    ELSE Complete(th[t].pending)

\* Image.save runs to its end (lines 143, 235-242, 249)
save_finish(t) ==
    LET pp == preview_path(th[t].path) IN
    /\ th[t].pc = "write"
    /\ store' = [store EXCEPT ![pp] = Written(t, pp)]
    /\ th' = [th EXCEPT ![t].pc = "exists2"]
    /\ UNCHANGED <<catalog, phase, completedQ, early, progress, requests,
                   response, genCalls, returned, lastFailed, warmFailed>>
    /\ UNCHANGED <<rangeVars, pureVars>>

\* Image.save raises while writing (no space left).  Pillow closes the file
\* and, depending on its version, removes a file that this save created.  A
\* failure of the frames' save is caught on line 244 and the placeholder is
\* saved; a failure of generate_preview's save or of the placeholder's save
\* reaches get_preview, which catches it.
save_fail(t) ==
    LET pp == preview_path(th[t].path) IN
    /\ th[t].pc = "write"
    /\ \E cleanup \in BOOLEAN :
         LET removes == cleanup /\ th[t].created
             reopen == th[t].stage = "frames" IN
         /\ store' = [store EXCEPT ![pp] = IF reopen THEN Partial
                                           ELSE IF removes THEN Absent ELSE @]
         /\ th' = [u \in Threads |->
                     IF u = t
                     THEN (IF reopen
                           THEN [th[u] EXCEPT !.stage = "placeholder", !.fd = "ok",
                                              !.pending = Placeholder,
                                              !.created = removes \/ ~Exists(pp),
                                              !.saveFailed = TRUE]
                           ELSE [th[u] EXCEPT !.pc = "exists2", !.fd = "",
                                              !.saveFailed = TRUE])
                     ELSE IF u \in Writers(pp) /\ removes
                     THEN [th[u] EXCEPT !.fd = "unlinked"]
                     ELSE IF u \in Writers(pp) /\ reopen /\ th[u].fd = "ok"
                     THEN [th[u] EXCEPT !.fd = "clobbered"]
                     ELSE th[u]]
    /\ UNCHANGED <<catalog, phase, completedQ, early, progress, requests,
                   response, genCalls, returned, lastFailed, warmFailed>>
    /\ UNCHANGED <<rangeVars, pureVars>>

\* lines 91-97 / 108-117: the second existence test, then open and read the
\* preview file, whatever it holds; no file means `return None`
get_preview_read(t) ==
    LET pp == preview_path(th[t].path) IN
    /\ th[t].pc = "exists2"
    /\ IF Exists(pp)
       THEN Return(t, pp, Some(PreviewMime(th[t].path), store[pp]),
                   Writers(pp) \ {t} # {})
       ELSE Return(t, pp, None, FALSE)
    /\ UNCHANGED <<catalog, phase, store, early, progress, requests, genCalls>>
    /\ UNCHANGED <<rangeVars, pureVars>>

(***************************************************************************)
(* build_cache: a pool of PoolSize workers runs build_one on every file,   *)
(* the main thread prints progress as futures complete.                    *)
(***************************************************************************)
\* mutants of Runnable and of Finished: a failure stops the pool from starting
\* further tasks; the builder leaves after the first report
Runnable_haltOnFailure(t) ==
    /\ \A u \in Tasks : u < t => th[u].pc # "queued"
    /\ Cardinality({u \in Tasks : th[u].pc \in {"exists1", "generate", "write", "exists2"}})
          < PoolSize
    /\ \A u \in Tasks : th[u].pc = "done" => th[u].result.ok
Finished_first == Len(progress) >= 1

\* ThreadPoolExecutor(max_workers=...): the queue is first in, first out, and
\* a task starts when one of the PoolSize workers is idle; nothing else
\* (no result and no exception of another task) is looked at
Runnable(t) ==
    /\ \A u \in Tasks : u < t => th[u].pc # "queued"
    /\ Cardinality({u \in Tasks : th[u].pc \in {"exists1", "generate", "write", "exists2"}})
          < PoolSize

\* a worker takes the next queued build_one(mf) and calls mf.get_preview()
build_one(t) ==
    /\ phase = "warm"
    /\ th[t].pc = "queued"
    /\ Runnable(t)
    /\ th' = [th EXCEPT ![t].pc = "exists1",
                        ![t].overlap = Active(preview_path(th[t].path))]
    /\ UNCHANGED <<catalog, phase, store, completedQ, early, progress,
                   requests, response, genCalls, returned, lastFailed, warmFailed>>
    /\ UNCHANGED <<rangeVars, pureVars>>

\* lines 1072-1075: as_completed yields a finished future, idx counts from 1.
\* as_completed first yields the futures that were already done when it was
\* called (it holds them in a set: in no particular order), then the others
\* as they complete.  The call comes after the submissions of line 1071, that
\* is after any number k of completions; the model fixes k at the first yield.
build_cache_progress ==
    /\ phase = "warm"
    /\ completedQ # <<>>
    /\ \E k \in 0..Len(completedQ) :
         LET atCall == IF progress = <<>> THEN { completedQ[i] : i \in 1..k } ELSE early
         IN \E t \in (IF atCall = {} THEN {Head(completedQ)} ELSE atCall) :
              /\ progress' = Append(progress, <<Len(progress) + 1, t>>)
              /\ completedQ' = SelectSeq(completedQ, LAMBDA u : u # t)
              /\ early' = atCall \ {t}
    /\ UNCHANGED <<catalog, phase, store, th, requests, response,
                   genCalls, returned, lastFailed, warmFailed>>
    /\ UNCHANGED <<rangeVars, pureVars>>

\* the `with` block of line 1070 is left when as_completed has yielded every future
Finished == Len(progress) = Len(all_files(catalog))

\* line 1076 and main lines 1113-1124: every future was yielded, the pool is
\* shut down and the server starts (the counters start again for the serving)
build_cache_exit ==
    /\ phase = "warm"
    /\ Finished
    /\ phase' = "serve"
    /\ th' = [t \in Threads |-> IF t = Server THEN th[t] ELSE Fresh("unused")]
    /\ progress' = <<>>
    /\ early' = {}
    /\ genCalls' = [pp \in PreviewPaths |-> 0]
    /\ returned' = [pp \in PreviewPaths |-> FALSE]
    /\ UNCHANGED <<catalog, store, completedQ, requests, response, lastFailed, warmFailed>>
    /\ UNCHANGED <<rangeVars, pureVars>>

(***************************************************************************)
(* The HTTP server (HTTPServer: one request at a time), GET /preview/<id>. *)
(***************************************************************************)
\* do_GET lines 278-283 and serve_media_preview lines 386-394, 404-405: an id
\* that is no integer or is outside the catalog gets 404
serve_media_preview(idt) ==
    /\ phase = "serve"
    /\ th[Server].pc = "idle"
    /\ ~rq.taken
    /\ requests < MaxRequests
    /\ requests' = requests + 1
    /\ IF IsIntText(idt) /\ InCatalog(IntText(idt))
       THEN /\ th' = [th EXCEPT ![Server] =
                        [Fresh("exists1") EXCEPT !.path = media_files(IntText(idt))]]
            /\ response' = NoResponse
       ELSE /\ response' = [NoResponse EXCEPT !.status = 404]
            /\ th' = [th EXCEPT ![Server] = Fresh("idle")]
    /\ UNCHANGED <<catalog, phase, store, completedQ, early, progress,
                   genCalls, returned, lastFailed, warmFailed>>
    /\ UNCHANGED <<rangeVars, pureVars>>

Next ==
    \/ \E t \in Threads : get_preview_lookup(t)
    \/ \E t \in Threads : generate_preview(t)
    \/ \E t \in Threads : generate_video_preview(t)
    \/ \E t \in Threads : save_finish(t)
    \/ \E t \in Threads : save_fail(t)
    \/ \E t \in Threads : get_preview_read(t)
    \/ \E t \in Tasks : build_one(t)
    \/ build_cache_progress
    \/ build_cache_exit
    \/ \E idt \in IdTexts : serve_media_preview(idt)

Spec == Init /\ [][Next]_vars

(***************************************************************************)
(* build_cache alone, on an empty previews directory and the catalog of a  *)
(* scan (os.walk gives every path once), with the scheduling Python gives  *)
(* it: every worker thread keeps running, so a started call                *)
(* of get_preview takes its next step, a queued task is started when a     *)
(* worker is idle, and the main thread takes the futures as_completed      *)
(* yields and leaves the `with` block after the last one.                  *)
(***************************************************************************)
WarmInit ==
    /\ Init
    /\ phase = "warm"
    /\ store = [pp \in PreviewPaths |-> Absent]
    /\ \A i, j \in 1..Len(catalog) : catalog[i] = catalog[j] => i = j

\* the steps of task t inside get_preview
TaskStep(t) ==
    \/ get_preview_lookup(t)
    \/ generate_preview(t)
    \/ generate_video_preview(t)
    \/ save_finish(t)
    \/ save_fail(t)
    \/ get_preview_read(t)

WarmNext ==
    \/ \E t \in Tasks : get_preview_lookup(t)
    \/ \E t \in Tasks : generate_preview(t)
    \/ \E t \in Tasks : generate_video_preview(t)
    \/ \E t \in Tasks : save_finish(t)
    \/ \E t \in Tasks : save_fail(t)
    \/ \E t \in Tasks : get_preview_read(t)
    \/ \E t \in Tasks : build_one(t)
    \/ build_cache_progress
    \/ build_cache_exit

WarmFairness ==
    /\ \A t \in Tasks : WF_vars(TaskStep(t))
    /\ \A t \in Tasks : WF_vars(build_one(t))
    /\ WF_vars(build_cache_progress)
    /\ WF_vars(build_cache_exit)

SpecWarm == WarmInit /\ [][WarmNext]_vars /\ WarmFairness

(***************************************************************************)
(* The range file server: GET /media/<id>, serve_media_by_id.              *)
(***************************************************************************)
\* Python's max and min
Max(a, b) == IF a >= b THEN a ELSE b
Min(a, b) == IF a <= b THEN a ELSE b

\* range_header.replace('bytes=', '')
RemoveUnit(h) == SelectSeq(h, LAMBDA c : c # "U")

\* str.split('-')
RECURSIVE Split(_)
Split(h) ==
    IF \A i \in 1..Len(h) : h[i] # "-" THEN <<h>>
    ELSE LET i == CHOOSE j \in 1..Len(h) :
                     h[j] = "-" /\ \A k \in 1..(j - 1) : h[k] # "-"
         IN <<SubSeq(h, 1, i - 1)>> \o Split(SubSeq(h, i + 1, Len(h)))

DigitVal(c) ==
    CASE c = "0" -> 0 [] c = "1" -> 1 [] c = "2" -> 2 [] c = "3" -> 3 [] c = "4" -> 4
      [] c = "5" -> 5 [] c = "6" -> 6 [] c = "7" -> 7 [] c = "8" -> 8 [] c = "9" -> 9

IsDigit(c) == c \in {"0", "1", "2", "3", "4", "5", "6", "7", "8", "9"}

\* int(text) raises ValueError unless the text is a number
IntOk(p) == p # <<>> /\ \A i \in 1..Len(p) : IsDigit(p[i])

\* int(text) for a text of digits
RECURSIVE int(_)
int(p) ==
    IF p = <<>> THEN 0
    ELSE int(SubSeq(p, 1, Len(p) - 1)) * 10 + DigitVal(p[Len(p)])

\* a mutant of ranges: a parser that honours the first range of a list
ranges_first(h) ==
    LET u == RemoveUnit(h)
        cut == IF \E j \in 1..Len(u) : u[j] = ","
               THEN (CHOOSE j \in 1..Len(u) : u[j] = "," /\ \A k \in 1..(j - 1) : u[k] # ",") - 1
               ELSE Len(u)
    IN Split(SubSeq(u, 1, cut))
\* lines 469-471: ranges = ....split('-'); whether the parse raises
\* ValueError (int) or IndexError (ranges[1])
ranges(h) == Split(RemoveUnit(h))
ParseRaises(h) ==
    \/ (ranges(h)[1] # <<>> /\ ~IntOk(ranges(h)[1]))
    \/ Len(ranges(h)) < 2
    \/ (ranges(h)[2] # <<>> /\ ~IntOk(ranges(h)[2]))

\* line 470: start = int(ranges[0]) if ranges[0] else 0
ParsedStart(h) == IF ranges(h)[1] # <<>> THEN int(ranges(h)[1]) ELSE 0
\* line 471: end = int(ranges[1]) if ranges[1] else file_size - 1
ParsedEnd(h, fs) == IF ranges(h)[2] # <<>> THEN int(ranges(h)[2]) ELSE fs - 1

\* line 474: start = max(0, min(start, file_size - 1))
ClampStart(st, fs) == Max(0, Min(st, fs - 1))

\* a mutant of ClampEnd: the end is not kept at or after the start
ClampEnd_nomax(st, en, fs) == Min(en, fs - 1)
\* line 475: end = max(start, min(end, file_size - 1))
ClampEnd(st, en, fs) == Max(st, Min(en, fs - 1))

\* a mutant of ContentLength: the off-by-one
ContentLength_short(st, en) == en - st
\* line 476: content_length = end - start + 1
ContentLength(st, en) == en - st + 1

\* f.seek(start); f.read(n) on a file of d bytes: the bytes are named by
\* their offsets, and a read stops at the end of the file
ReadBytes(d, st, n) ==
    LET avail == Max(0, d - st)
    IN [i \in 1..Min(n, avail) |-> st + i - 1]

\* send_error(404), after whatever was sent before
send_error(sent) == [sent EXCEPT !.statuses = Append(@, 404)]

\* a mutant of serve_full_file: the body cut to the size the scan recorded
serve_full_file_sized(d, fs, hangup) ==
    IF d < 0 THEN [NoReply EXCEPT !.statuses = <<404>>]
    ELSE LET head == [NoReply EXCEPT !.statuses = <<200>>, !.accept_ranges = TRUE,
                                     !.content_length = fs]
         IN IF hangup THEN [head EXCEPT !.statuses = <<200, 404>>]
            ELSE [head EXCEPT !.body = ReadBytes(d, 0, fs)]

\* serve_full_file, lines 511-523, under serve_media_by_id's `except IOError`
\* (504-505): a missing file raises at open; a client that has hung up makes
\* write_response raise after the status and headers were sent
serve_full_file(d, fs, hangup) ==
    IF d < 0 THEN send_error(NoReply)
    ELSE LET head == [NoReply EXCEPT !.statuses = <<200>>, !.accept_ranges = TRUE,
                                     !.content_length = fs]
         IN IF hangup THEN send_error(head)
            ELSE [head EXCEPT !.body = ReadBytes(d, 0, d)]

\* a mutant of ServeRange: the status and headers sent before the file is opened
ServeRange_headFirst(h, d, fs, hangup) ==
    IF ParseRaises(h) THEN serve_full_file(d, fs, hangup)
    ELSE LET start == ClampStart(ParsedStart(h), fs)
             end == ClampEnd(start, ParsedEnd(h, fs), fs)
             head == [NoReply EXCEPT !.statuses = <<206>>,
                                     !.content_range = <<start, end, fs>>,
                                     !.accept_ranges = TRUE,
                                     !.content_length = ContentLength(start, end),
                                     !.parsed = <<ParsedStart(h), ParsedEnd(h, fs)>>]
         IN IF d < 0 \/ hangup THEN send_error(head)
            ELSE [head EXCEPT !.body = ReadBytes(d, start, ContentLength(start, end))]

\* serve_media_by_id lines 466-499, 504-505: the Range header is parsed, the
\* range clamped, read and sent as 206; a parse error serves the full file
ServeRange(h, d, fs, hangup) ==
    IF ParseRaises(h) THEN serve_full_file(d, fs, hangup)
    ELSE LET start == ClampStart(ParsedStart(h), fs)
             end == ClampEnd(start, ParsedEnd(h, fs), fs)
             content_length == ContentLength(start, end)
             head == [NoReply EXCEPT !.statuses = <<206>>,
                                     !.content_range = <<start, end, fs>>,
                                     !.accept_ranges = TRUE,
                                     !.content_length = content_length,
                                     !.parsed = <<ParsedStart(h), ParsedEnd(h, fs)>>]
         IN IF d < 0 THEN send_error(NoReply)
            ELSE IF hangup THEN send_error(head)
            ELSE [head EXCEPT !.body = ReadBytes(d, start, content_length)]

\* serve_media_by_id lines 460-502: `if range_header:` is false for no header
\* and for an empty one
MediaReply(h, d, fs, hangup) ==
    IF h # <<>> THEN ServeRange(h, d, fs, hangup)
    ELSE serve_full_file(d, fs, hangup)

\* a mutant of serve_media_by_id: the preview of the asset generated on the way
serve_media_by_id_warming(hdrs) ==
    /\ phase = "serve"
    /\ th[Server].pc = "idle"
    /\ ~rq.taken
    /\ \E idt \in IdTexts :
         IF IsIntText(idt) /\ InCatalog(IntText(idt))
         THEN \E h \in hdrs, hangup \in BOOLEAN :
                /\ rq' = [taken |-> TRUE, id |-> idt, hdr |-> h, hangup |-> hangup]
                /\ rs' = MediaReply(h, disk, file_size, hangup)
                /\ genCalls' = [genCalls EXCEPT
                                  ![preview_path(media_files(IntText(idt)))] = @ + 1]
         ELSE /\ rq' = [NoRequest EXCEPT !.taken = TRUE, !.id = idt]
              /\ rs' = send_error(NoReply)
              /\ genCalls' = genCalls
    /\ UNCHANGED <<file_size, disk>>
    /\ UNCHANGED <<catalog, phase, store, th, completedQ, early, progress,
                   requests, response, returned, lastFailed, warmFailed, pureVars>>

\* do_GET lines 284-289 and serve_media_by_id: one GET /media/<id> request
\* of the single-threaded server, its Range header one of hdrs.  An id that is
\* no integer or is outside the catalog gets 404 before any header is looked
\* at.
serve_media_by_id(hdrs) ==
    /\ phase = "serve"
    /\ th[Server].pc = "idle"
    /\ ~rq.taken
    /\ \E idt \in IdTexts :
         IF IsIntText(idt) /\ InCatalog(IntText(idt))
         THEN \E h \in hdrs, hangup \in BOOLEAN :
                /\ rq' = [taken |-> TRUE, id |-> idt, hdr |-> h, hangup |-> hangup]
                /\ rs' = MediaReply(h, disk, file_size, hangup)
         ELSE /\ rq' = [NoRequest EXCEPT !.taken = TRUE, !.id = idt]
              /\ rs' = send_error(NoReply)
    /\ UNCHANGED <<file_size, disk>>
    /\ UNCHANGED <<cacheVars, pureVars>>

\* main line 1124, serve_forever: the single-threaded server is done with the
\* request and waits for the next one
finish_request ==
    /\ rq.taken
    /\ rq' = NoRequest
    /\ rs' = NoReply
    /\ UNCHANGED <<file_size, disk>>
    /\ UNCHANGED <<cacheVars, pureVars>>

\* the environment, between two requests: the file is truncated, grows or is
\* removed after the scan recorded its size
file_changes ==
    /\ ~rq.taken
    /\ \E d \in {-1, file_size - 1, file_size, file_size + 1} :
         /\ d >= -1
         /\ d # disk
         /\ disk' = d
    /\ UNCHANGED <<file_size, rq, rs>>
    /\ UNCHANGED <<cacheVars, pureVars>>

RangeInit ==
    /\ PureIdle
    /\ catalog = [i \in 1..MaxCatalog |-> <<"a", "png">>]
    /\ phase = "serve"
    /\ store = [pp \in PreviewPaths |-> Absent]
    /\ th = [t \in Threads |-> IF t = Server THEN Fresh("idle") ELSE Fresh("unused")]
    /\ completedQ = <<>>
    /\ progress = <<>>
    /\ requests = 0
    /\ response = NoResponse
    /\ genCalls = [pp \in PreviewPaths |-> 0]
    /\ returned = [pp \in PreviewPaths |-> FALSE]
    /\ lastFailed = [pp \in PreviewPaths |-> FALSE]
    /\ early = {}
    /\ warmFailed = [pp \in PreviewPaths |-> FALSE]
    /\ file_size \in 0..MaxFileSize
    /\ disk = file_size
    /\ rq = NoRequest
    /\ rs = NoReply

RangeNext ==
    \/ serve_media_by_id(Headers)
    \/ finish_request
    \/ file_changes

SpecRange == RangeInit /\ [][RangeNext]_vars

(***************************************************************************)
(* The server with both endpoints, GET /preview/<id> and GET /media/<id>,  *)
(* on an empty previews directory and a 1-byte file; the /media requests   *)
(* come without Range header or with bytes=0-0.                            *)
(***************************************************************************)
ProbeHeaders == { <<>>, <<"U", "0", "-", "0">> }

ServerInit ==
    /\ Init
    /\ phase = "serve"
    /\ store = [pp \in PreviewPaths |-> Absent]

ServerNext ==
    \/ \E idt \in IdTexts : serve_media_preview(idt)
    \/ get_preview_lookup(Server)
    \/ generate_preview(Server)
    \/ generate_video_preview(Server)
    \/ save_finish(Server)
    \/ save_fail(Server)
    \/ get_preview_read(Server)
    \/ serve_media_by_id(ProbeHeaders)
    \/ finish_request

SpecServer == ServerInit /\ [][ServerNext]_vars

(***************************************************************************)
(* The same server, with /media requests of every kind of Range header     *)
(* (none, a range, an open range, a malformed one) on a file that may have *)
(* changed or gone since the scan.                                         *)
(***************************************************************************)
EndpointHeaders == ProbeHeaders \cup { <<"U", "-">>, <<"x">> }

EndpointsNext ==
    \/ \E idt \in IdTexts : serve_media_preview(idt)
    \/ get_preview_lookup(Server)
    \/ generate_preview(Server)
    \/ generate_video_preview(Server)
    \/ save_finish(Server)
    \/ save_fail(Server)
    \/ get_preview_read(Server)
    \/ serve_media_by_id(EndpointHeaders)
    \/ finish_request
    \/ file_changes

SpecEndpoints == ServerInit /\ [][EndpointsNext]_vars

(***************************************************************************)
(* extract_video_frames, one call: the capture is opened, the frame count  *)
(* read, the frame indices computed, and each index sought and read.       *)
(***************************************************************************)
\* PREVIEW_FRAME_COUNT, line 24
PREVIEW_FRAME_COUNT == 11
\* largest frame count a capture reports
MaxFrames == 13

\* the server is up and idle: the state of everything but the call looked at
Quiet ==
    /\ catalog = <<<<"a", "png">>>>
    /\ phase = "serve"
    /\ store = [pp \in PreviewPaths |-> Absent]
    /\ th = [t \in Threads |-> IF t = Server THEN Fresh("idle") ELSE Fresh("unused")]
    /\ completedQ = <<>>
    /\ early = {}
    /\ progress = <<>>
    /\ requests = 0
    /\ response = NoResponse
    /\ genCalls = [pp \in PreviewPaths |-> 0]
    /\ returned = [pp \in PreviewPaths |-> FALSE]
    /\ lastFailed = [pp \in PreviewPaths |-> FALSE]
    /\ warmFailed = [pp \in PreviewPaths |-> FALSE]
    /\ file_size = 1
    /\ disk = 1
    /\ rq = NoRequest
    /\ rs = NoReply

\* list(range(n))
range(n) == [k \in 1..n |-> k - 1]

\* mutants of NoFrames, frame_idx and frame_indices: only a negative count
\* refused; a step of total // num_frames; the even spread for every count
NoFrames_negative(total_frames) == total_frames < 0
frame_idx_step(i, total_frames, num_frames) == i * (total_frames \div num_frames)
frame_indices_spread(total_frames, num_frames) ==
    [k \in 1..num_frames |-> ((k - 1) * (total_frames - 1)) \div (num_frames - 1)]

\* line 154: `if total_frames <= 0`
NoFrames(total_frames) == total_frames <= 0

\* lines 171-175: position = i / (num_frames - 1), then
\* int(position * (total_frames - 1)).  int() truncates; the product of the
\* two doubles truncates to the exact quotient for every total_frames below
\* 91 (at 91, i = 7 gives 62 where the exact quotient is 63).
frame_idx(i, total_frames, num_frames) ==
    IF num_frames = 1 THEN 0
    ELSE (i * (total_frames - 1)) \div (num_frames - 1)

\* lines 161-176: the indices to sample
frame_indices(total_frames, num_frames) ==
    IF total_frames = 1 THEN <<0>>
    ELSE IF total_frames < num_frames THEN range(total_frames)
    ELSE [k \in 1..num_frames |-> frame_idx(k - 1, total_frames, num_frames)]

\* lines 148-150: cv2.VideoCapture(video_path) and cap.isOpened()
ev_open ==
    /\ ev.pc = "open"
    /\ ev' = IF ev.opened THEN [ev EXCEPT !.pc = "count"]
             ELSE [ev EXCEPT !.pc = "raised", !.raised = "CannotOpen"]
    /\ UNCHANGED <<cacheVars, rangeVars, gp, fx, tree>>

\* lines 153-176: the frame count is read; none means ValueError (through the
\* `finally` that releases the capture), else the indices are computed
ev_count ==
    /\ ev.pc = "count"
    /\ ev' = IF NoFrames(ev.count)
             THEN [ev EXCEPT !.pc = "raised", !.raised = "NoFrames",
                             !.total_frames = ev.count]
             ELSE [ev EXCEPT !.pc = "read", !.total_frames = ev.count,
                             !.frame_indices = frame_indices(ev.count, PREVIEW_FRAME_COUNT)]
    /\ UNCHANGED <<cacheVars, rangeVars, gp, fx, tree>>

\* lines 178-185: cap.set(POS_FRAMES, frame_idx), cap.read(); a frame that
\* cannot be read (ret false) is left out
ev_read ==
    /\ ev.pc = "read"
    /\ Len(ev.reads) < Len(ev.frame_indices)
    /\ \E ret \in BOOLEAN :
         LET frame_idx_ == ev.frame_indices[Len(ev.reads) + 1]
         IN ev' = [ev EXCEPT !.reads = Append(@, frame_idx_),
                             !.frames = IF ret THEN Append(@, frame_idx_) ELSE @]
    /\ UNCHANGED <<cacheVars, rangeVars, gp, fx, tree>>

\* lines 187-190: return frames, the capture released
ev_return ==
    /\ ev.pc = "read"
    /\ Len(ev.reads) = Len(ev.frame_indices)
    /\ ev' = [ev EXCEPT !.pc = "returned"]
    /\ UNCHANGED <<cacheVars, rangeVars, gp, fx, tree>>

\* generate_video_preview, lines 222-249, after extract_video_frames: no
\* frames (or an exception of the extraction) means the placeholder frame is
\* saved; else every returned frame is resized and cropped and the frames
\* are saved as one animated GIF, in their order
gv_assemble ==
    /\ ev.pc \in {"returned", "raised"}
    /\ ~ev.saved
    /\ ev' = IF ev.pc = "returned" /\ ev.frames # <<>>
             THEN [ev EXCEPT !.saved = TRUE, !.processed_frames = ev.frames]
             ELSE [ev EXCEPT !.saved = TRUE, !.placeholder = TRUE]
    /\ UNCHANGED <<cacheVars, rangeVars, gp, fx, tree>>

\* a call on a file that opens or not, whose capture reports any frame count
FramesInit ==
    /\ Quiet
    /\ gp = NoRender
    /\ fx = NoRun
    /\ tree = NoTree
    /\ \E o \in BOOLEAN, c \in (0 - 1)..MaxFrames :
         ev = [NoCall EXCEPT !.pc = "open", !.opened = o, !.count = c]

FramesNext ==
    \/ ev_open
    \/ ev_count
    \/ ev_read
    \/ ev_return
    \/ gv_assemble

SpecFrames == FramesInit /\ [][FramesNext]_vars

(***************************************************************************)
(* generate_preview and resize_and_crop_frame, one call: the geometry of   *)
(* the resize and of the crop.  An image is its size <<width, height>>.    *)
(***************************************************************************)
\* target_w, target_h = 320, 200 (line 124; the defaults of line 193)
target_w == 320
target_h == 200
\* largest width and height of the small source images
MaxSide == 8

\* the source sizes: every small one, and some of the size of real images
SrcSizes ==
    ((1..MaxSide) \X (1..MaxSide))
      \cup { <<312, 195>>, <<77, 77>>, <<640, 400>>, <<1000, 200>> }

\* int(x * (t / y)) on doubles: t / y is rounded, the product is rounded, and
\* int() truncates.  The result is the exact quotient x*t // y for the sizes
\* above but for two of them, where the product falls just below the integer
\* x*t/y and the truncation gives one less: int(195 * (320 / 312)) = 199 and
\* int(77 * (320 / 77)) = 319.
DoubleShort == { <<195, 320, 312>>, <<77, 320, 77>> }
Scaled(x, t, y) ==
    IF <<x, t, y>> \in DoubleShort THEN ((x * t) \div y) - 1 ELSE (x * t) \div y

\* lines 126-129, 196-200: src_ratio > target_ratio; the two quotients are
\* doubles, whose order is the order of the exact ratios for these sizes
Wider(src_w, src_h) == src_w * target_h > src_h * target_w

\* a mutant of crop: the box cut to the image, as a slice of an array would be
crop_clipped(img, box) ==
    <<Min(box[3], img[1]) - Max(box[1], 0), Min(box[4], img[2]) - Max(box[2], 0)>>

\* Image.resize(size): an image of that size
resize(img, size) == size
\* Image.crop((left, upper, right, lower)): an image of the size of the box,
\* also where the box reaches outside the image (the outside is left blank)
crop(img, box) == <<box[3] - box[1], box[4] - box[2]>>

\* lines 131-133 / 138-140, 202-204 / 209-211: the size to resize to
NewSize(src_w, src_h) ==
    IF Wider(src_w, src_h) THEN <<Scaled(src_w, target_h, src_h), target_h>>
    ELSE <<target_w, Scaled(src_h, target_w, src_w)>>

\* lines 134-135 / 141-142, 205-206 / 212-213: the box to crop; // is the
\* floor division
CropBox(src_w, src_h, new) ==
    IF Wider(src_w, src_h)
    THEN LET left == (new[1] - target_w) \div 2
         IN <<left, 0, left + target_w, target_h>>
    ELSE LET top == (new[2] - target_h) \div 2
         IN <<0, top, target_w, top + target_h>>

\* lines 122-125 / 195: the image is opened (the frame handed over), its size read
gp_open ==
    /\ gp.pc = "open"
    /\ gp' = [gp EXCEPT !.pc = "resize", !.size = gp.src]
    /\ UNCHANGED <<cacheVars, rangeVars, ev, fx, tree>>

\* lines 129-133 / 136-140, 200-204 / 207-211: img.resize, which raises
\* ValueError for a size that is not positive
gp_resize ==
    /\ gp.pc = "resize"
    /\ LET new == NewSize(gp.src[1], gp.src[2])
       IN gp' = IF new[1] <= 0 \/ new[2] <= 0
                THEN [gp EXCEPT !.pc = "raised", !.raised = "ValueError", !.resized = new]
                ELSE [gp EXCEPT !.pc = "crop", !.resized = new,
                                !.size = resize(gp.size, new)]
    /\ UNCHANGED <<cacheVars, rangeVars, ev, fx, tree>>

\* lines 134-135 / 141-142, 205-206 / 212-213: img.crop
gp_crop ==
    /\ gp.pc = "crop"
    /\ LET box == CropBox(gp.src[1], gp.src[2], gp.resized)
       IN gp' = [gp EXCEPT !.pc = "out", !.box = box, !.size = crop(gp.size, box)]
    /\ UNCHANGED <<cacheVars, rangeVars, ev, fx, tree>>

\* line 143: generate_preview saves the image as PNG
gp_save ==
    /\ gp.pc = "out"
    /\ gp.fn = "generate_preview"
    /\ gp' = [gp EXCEPT !.pc = "saved"]
    /\ UNCHANGED <<cacheVars, rangeVars, ev, fx, tree>>

\* line 215: resize_and_crop_frame returns the frame
gp_return ==
    /\ gp.pc = "out"
    /\ gp.fn = "resize_and_crop_frame"
    /\ gp' = [gp EXCEPT !.pc = "returned"]
    /\ UNCHANGED <<cacheVars, rangeVars, ev, fx, tree>>

\* a call of either function on an image of any of the source sizes
GeometryInit ==
    /\ Quiet
    /\ ev = NoCall
    /\ fx = NoRun
    /\ tree = NoTree
    /\ \E f \in {"generate_preview", "resize_and_crop_frame"}, sz \in SrcSizes :
         gp = [NoRender EXCEPT !.pc = "open", !.fn = f, !.src = sz]

GeometryNext ==
    \/ gp_open
    \/ gp_resize
    \/ gp_crop
    \/ gp_save
    \/ gp_return

SpecGeometry == GeometryInit /\ [][GeometryNext]_vars

(***************************************************************************)
(* fix_file_types.py: process_directory on one directory.  A file is its   *)
(* path <<stem, extension>> and what its first bytes say it is.            *)
(***************************************************************************)
\* most files in the directory
MaxFiles == 2

\* what the first 32 bytes of a file are: a JPEG or PNG signature,
\* '<!doctype html>', nothing at all, or nothing that is recognized
FixContents == {"jpg", "png", "html", "empty", "none"}

\* the directories: at most MaxFiles files
Trees ==
    { tr \in [FixPaths -> FixContents \cup {"absent"}] :
        Cardinality({ p \in FixPaths : tr[p] # "absent" }) <= MaxFiles }

\* detect_file_type, lines 13-49: the type the header tells, "None" for none
detect_file_type(content) == IF content = "none" THEN "None" ELSE content

\* get_current_extension, lines 52-54
get_current_extension(file_path) == Lower(file_path[2])

\* skip_extensions = { '.txt' }, line 102
skip_extensions == {"txt"}

\* a mutant of rename_file: os.rename without the test for the target
rename_file_over(tr, old_path, new_extension, oserr) ==
    LET new_path == <<old_path[1], new_extension>>
    IN IF oserr
       THEN [success |-> FALSE, new_path |-> <<>>, reason |-> "rename_error", tree |-> tr]
       ELSE [success |-> TRUE, new_path |-> new_path, reason |-> "None",
             tree |-> [[tr EXCEPT ![old_path] = "absent"] EXCEPT ![new_path] = tr[old_path]]]

\* rename_file, lines 64-82: (success, new_path, reason) and the directory
\* after it; oserr says that os.rename raises OSError
rename_file(tr, old_path, new_extension, oserr) ==
    LET new_path == <<old_path[1], new_extension>>
    IN IF tr[new_path] # "absent"
       THEN [success |-> FALSE, new_path |-> new_path, reason |-> "target_exists", tree |-> tr]
       ELSE IF oserr
       THEN [success |-> FALSE, new_path |-> <<>>, reason |-> "rename_error", tree |-> tr]
       ELSE [success |-> TRUE, new_path |-> new_path, reason |-> "None",
             tree |-> [[tr EXCEPT ![old_path] = "absent"] EXCEPT ![new_path] = tr[old_path]]]

\* remove_file, lines 85-95: (success, reason) and the directory after it
remove_file(tr, file_path, oserr) ==
    IF oserr THEN [success |-> FALSE, reason |-> "remove_error", tree |-> tr]
    ELSE [success |-> TRUE, reason |-> "None", tree |-> [tr EXCEPT ![file_path] = "absent"]]

\* a mutant of DryRun: the flag not looked at when pruning
DryRun_renamesOnly(run) == run.dry_run /\ ~run.prune

\* lines 126 and 157: `if dry_run`
DryRun(run) == run.dry_run

\* line 110: os.walk lists the files of the directory
fx_walk ==
    /\ fx.pc = "start"
    /\ fx' = [fx EXCEPT !.pc = "walk", !.todo = { p \in FixPaths : tree[p] # "absent" }]
    /\ UNCHANGED tree
    /\ UNCHANGED <<cacheVars, rangeVars, ev, gp>>

\* lines 111-174: one turn of the loop, for the file the listing gives next
\* (in the order of the listing, which is any order)
process_file ==
    /\ fx.pc = "walk"
    /\ \E file_path \in fx.todo, oserr \in BOOLEAN :
         LET current_ext == get_current_extension(file_path)
             actual_type == detect_file_type(tree[file_path])
             rest == [fx EXCEPT !.todo = @ \ {file_path}]
             counted == [rest EXCEPT !.files_processed = @ + 1]
             renamed == rename_file(tree, file_path, actual_type, oserr)
             removed == remove_file(tree, file_path, oserr)
         IN IF current_ext \in skip_extensions
            THEN fx' = rest /\ tree' = tree
            ELSE IF actual_type \in {"html", "empty"}
            THEN IF fx.prune
                 THEN IF DryRun(fx)
                      THEN /\ fx' = [counted EXCEPT !.last = <<"WOULD REMOVE", file_path>>]
                           /\ tree' = tree
                      ELSE /\ tree' = removed.tree
                           /\ fx' = IF removed.success
                                    THEN [counted EXCEPT !.last = <<"REMOVED", file_path>>,
                                                         !.files_removed = @ + 1]
                                    ELSE [counted EXCEPT !.last = <<"FAILED TO REMOVE", file_path>>]
                 ELSE /\ fx' = [counted EXCEPT !.last = <<"FOUND", file_path>>]
                      /\ tree' = tree
            ELSE IF actual_type = "None"
            THEN /\ fx' = [counted EXCEPT !.last = <<"UNRECOGNIZED", file_path>>,
                                          !.files_unrecognized = @ + 1]
                 /\ tree' = tree
            ELSE IF actual_type # current_ext
            THEN IF DryRun(fx)
                 THEN /\ fx' = [counted EXCEPT !.last = <<"WOULD RENAME", file_path>>]
                      /\ tree' = tree
                 ELSE /\ tree' = renamed.tree
                      /\ fx' = IF renamed.success
                               THEN [counted EXCEPT !.last = <<"RENAMED", file_path>>,
                                                    !.files_renamed = @ + 1]
                               ELSE IF renamed.reason = "target_exists"
                               THEN [counted EXCEPT !.last = <<"SKIPPED", file_path>>]
                               ELSE [counted EXCEPT !.last = <<"FAILED TO RENAME", file_path>>]
            ELSE fx' = counted /\ tree' = tree
    /\ UNCHANGED <<cacheVars, rangeVars, ev, gp>>

\* lines 181-186: the listing is at its end, the summary is printed
fx_summary ==
    /\ fx.pc = "walk"
    /\ fx.todo = {}
    /\ fx' = [fx EXCEPT !.pc = "done"]
    /\ UNCHANGED tree
    /\ UNCHANGED <<cacheVars, rangeVars, ev, gp>>

\* main, lines 189-211: process_directory(directory, args.dry_run, args.prune)
\* on any directory
FixInit ==
    /\ Quiet
    /\ ev = NoCall
    /\ gp = NoRender
    /\ tree \in Trees
    /\ \E d \in BOOLEAN, pr \in BOOLEAN :
         fx = [NoRun EXCEPT !.pc = "start", !.dry_run = d, !.prune = pr, !.before = tree]

FixNext ==
    \/ fx_walk
    \/ process_file
    \/ fx_summary

SpecFix == FixInit /\ [][FixNext]_vars

(***************************************************************************)
(* The claims about the preview cache, checked under Spec.                 *)
(***************************************************************************)
\* the calls that have returned and whose result is still at hand
Returned(t) == th[t].pc = "done" \/ (t = Server /\ th[t].pc = "idle" /\ th[t].path # <<"", "">>)

\* C1: single-flight: while no call for a key has returned, so that all the
\* calls made for it are concurrent, its generator has been invoked at most
\* once, however many callers there are.
C1_SingleFlight ==
    \A pp \in PreviewPaths :
        (~returned[pp] /\ Cardinality(Active(pp)) >= 2) => genCalls[pp] <= 1

\* C2: two calls for the same key that overlapped in time return the same
\* outcome: the same (mime, bytes) or both None.
C2_SameOutcome ==
    \A t, u \in Tasks :
        (/\ t # u
         /\ th[t].pc = "done" /\ th[u].pc = "done"
         /\ preview_path(th[t].path) = preview_path(th[u].path)
         /\ u \in th[t].overlap)
        => th[t].result = th[u].result

\* C3: atomic publication: a call that read the preview file while a generator
\* had it open for writing returns None or the complete bytes, never a
\* partly written file.
C3_AtomicPublish ==
    \A t \in Threads :
        (Returned(t) /\ th[t].sawWriter)
        => (~th[t].result.ok \/ th[t].result.st = "complete")

\* C4: no negative caching: when the last request for a key ended with a
\* failed generation and no preview (None), the next request for that key
\* invokes the generator again at its lookup.
C4_NoNegativeCache ==
    [][\A pp \in PreviewPaths :
         (/\ lastFailed[pp]
          /\ th[Server].pc = "exists1"
          /\ preview_path(th[Server].path) = pp
          /\ th'[Server].pc # "exists1")
         => (genCalls'[pp] = genCalls[pp] + 1 /\ th'[Server].pc = "generate")]_vars

\* C4 witness: a request is in the generator for a key whose previous request
\* failed with None.
C4_Witness ==
    /\ th[Server].pc = "generate"
    /\ lastFailed[preview_path(th[Server].path)]
    /\ requests = 2

\* C5: cache hit: a call that finds an entry for its key at its lookup never
\* invokes the generator, and a request returns that entry's bytes with the
\* mime type of the asset's kind.
C5_CacheHit ==
    \A t \in Threads :
        th[t].found =>
            /\ ~th[t].invoked
            /\ (t = Server /\ th[t].pc = "idle")
               => /\ th[t].result = Some(PreviewMime(th[t].path), th[t].seen)
                  /\ response = ServeResponse(th[t].result)
                  /\ response.body = th[t].seen.data

\* C5 witness: a request was answered from an entry an earlier run of the
\* program had persisted, without any generation in this run.
C5_Witness ==
    /\ th[Server].pc = "idle"
    /\ th[Server].found
    /\ th[Server].result = Some("image/gif", Complete(<<"gif", "v1">>))
    /\ \A pp \in PreviewPaths : genCalls[pp] = 0
    /\ progress = <<>>

\* C6: write-once: a complete (published) preview file never changes again.
C6_WriteOnce ==
    [][\A pp \in PreviewPaths :
         store[pp].st = "complete" => store'[pp] = store[pp]]_vars

\* C7: Cache Builder deduplication: during the warm no key's generator is
\* invoked more than once, also when the catalog holds an entry twice.
C7_Dedup ==
    phase = "warm" => \A pp \in PreviewPaths : genCalls[pp] <= 1


(***************************************************************************)
(* The range file server's claims, under SpecRange.                        *)
(***************************************************************************)
\* The request named an asset of the catalog.
ValidId == rq.taken /\ IsIntText(rq.id) /\ 0 <= IntText(rq.id) /\ IntText(rq.id) < Len(catalog)

\* The specification's grammar, written from its words and not from the
\* parser: the unit 'bytes=', then digits*, one '-', digits*.
DashAt(h) == CHOOSE j \in 1..Len(h) : h[j] = "-"
WellFormedSingle(h) ==
    /\ Len(h) >= 2
    /\ h[1] = "U"
    /\ Cardinality({j \in 1..Len(h) : h[j] = "-"}) = 1
    /\ \A j \in 2..Len(h) : h[j] = "-" \/ h[j] \in HdrDigits

\* the value of a text of digits, most significant first
RECURSIVE Value(_, _)
Value(p, acc) == IF p = <<>> THEN acc ELSE Value(Tail(p), acc * 10 + DigitVal(Head(p)))

\* the bounds a well-formed header asks for: missing start 0, missing end size-1
RefStart(h) == IF DashAt(h) = 2 THEN 0 ELSE Value(SubSeq(h, 2, DashAt(h) - 1), 0)
RefEnd(h, fs) ==
    IF DashAt(h) = Len(h) THEN fs - 1 ELSE Value(SubSeq(h, DashAt(h) + 1, Len(h)), 0)
Clamp(x, lo, hi) == IF x < lo THEN lo ELSE IF x > hi THEN hi ELSE x

\* the partial response the specification describes for bounds s..e of a file
\* of fs bytes whose bytes are named by their offsets
PartialResponse(s, e, fs) ==
    [statuses |-> <<206>>, content_range |-> <<s, e, fs>>, accept_ranges |-> TRUE,
     content_length |-> e - s + 1, body |-> [i \in 1..(e - s + 1) |-> s + i - 1]]

IsPartial(r, s, e, fs) ==
    LET p == PartialResponse(s, e, fs)
    IN /\ r.statuses = p.statuses
       /\ r.content_range = p.content_range
       /\ r.accept_ranges = p.accept_ranges
       /\ r.content_length = p.content_length
       /\ r.body = p.body

\* the two worked examples: a 1000-byte file, bytes=0-99 and bytes=900-2000
Range_0_99 == <<"U", "0", "-", "9", "9">>
Range_900_2000 == <<"U", "9", "0", "0", "-", "2", "0", "0", "0">>

\* C8: a GET /media/<id> with a well-formed single range, on a file of size
\* at least 1 that still has the size the scan recorded and with the client
\* still connected, is answered 206 with Content-Range start-end/size,
\* Accept-Ranges and Content-Length = end-start+1, start and end being the
\* clamped bounds, and with exactly the bytes start..end as body; on a
\* 1000-byte file bytes=0-99 gives 0-99/1000 and 100 bytes, bytes=900-2000
\* gives 900-999/1000 and 100 bytes (the two examples are computed by the
\* handler's reply function in the states where the server is idle).
C8_ValidRange ==
    /\ (ValidId /\ WellFormedSingle(rq.hdr) /\ file_size >= 1 /\ disk = file_size
          /\ ~rq.hangup)
         => LET s == Clamp(RefStart(rq.hdr), 0, file_size - 1)
                e == Clamp(RefEnd(rq.hdr, file_size), s, file_size - 1)
            IN IsPartial(rs, s, e, file_size)
    /\ ~rq.taken
         => /\ IsPartial(MediaReply(Range_0_99, 1000, 1000, FALSE), 0, 99, 1000)
            /\ IsPartial(MediaReply(Range_900_2000, 1000, 1000, FALSE), 900, 999, 1000)
            /\ Len(MediaReply(Range_900_2000, 1000, 1000, FALSE).body) = 100

\* a range that clamping changes was served: bytes=2-0 on a 2-byte file
C8_Witness ==
    /\ ValidId
    /\ rq.hdr = <<"U", "2", "-", "0">>
    /\ ~rq.hangup
    /\ file_size = 2
    /\ disk = 2
    /\ rs.statuses = <<206>>
    /\ rs.content_range = <<1, 1, 2>>
    /\ rs.body = <<1>>

\* C9: a Range header that is no well-formed single 'bytes=start-end' range
\* (non-numeric bounds, extra '-' separated parts, no 'bytes=' unit) is
\* answered 200 with Accept-Ranges and the full file, never 206 or 4xx (here
\* for a file of size at least 1 that is unchanged since the scan, the client
\* still connected).
C9_MalformedDegrades ==
    (ValidId /\ rq.hdr # <<>> /\ ~WellFormedSingle(rq.hdr) /\ file_size >= 1
       /\ disk = file_size /\ ~rq.hangup)
      => /\ rs.statuses = <<200>>
         /\ rs.accept_ranges
         /\ rs.body = [i \in 1..file_size |-> i - 1]

\* C10: for every parsed range on a file of size at least 1, a missing start
\* is 0 and a missing end is size-1, start = clamp(start, 0, size-1) and
\* end = clamp(end, start, size-1), so that 0 <= start <= end <= size-1.
C10_RangeBounds ==
    (ValidId /\ rs.statuses # <<>> /\ rs.statuses[1] = 206 /\ file_size >= 1)
      => LET start == rs.content_range[1]
             end == rs.content_range[2]
             parts == ranges(rq.hdr)
         IN /\ (parts[1] = <<>> => rs.parsed[1] = 0)
            /\ (parts[2] = <<>> => rs.parsed[2] = file_size - 1)
            /\ start = Clamp(rs.parsed[1], 0, file_size - 1)
            /\ end = Clamp(rs.parsed[2], start, file_size - 1)
            /\ 0 <= start
            /\ start <= end
            /\ end <= file_size - 1

\* a parsed range whose end lies before its start: 2-0 asked, 1-1 served
C10_Witness ==
    /\ ValidId
    /\ rs.statuses # <<>>
    /\ rs.statuses[1] = 206
    /\ file_size = 2
    /\ rs.parsed = <<2, 0>>
    /\ rs.content_range = <<1, 1, 2>>


\* the full response the specification describes for a file of d bytes
FullResponse(d) ==
    [statuses |-> <<200>>, accept_ranges |-> TRUE, body |-> [i \in 1..d |-> i - 1]]

IsFull(r, d) ==
    /\ r.statuses = FullResponse(d).statuses
    /\ r.accept_ranges = FullResponse(d).accept_ranges
    /\ r.body = FullResponse(d).body
    /\ r.content_range = <<>>

\* C11: a GET /media/<id> without Range header, for an asset whose file
\* exists (the client staying connected), is answered 200 with Accept-Ranges
\* and the complete file, as it is on disk at the request, as body.
C11_NoRange ==
    (ValidId /\ rq.hdr = <<>> /\ disk >= 0 /\ ~rq.hangup) => IsFull(rs, disk)

\* a file that grew after the scan is served whole
C11_Witness ==
    /\ ValidId
    /\ rq.hdr = <<>>
    /\ ~rq.hangup
    /\ file_size = 1
    /\ disk = 2
    /\ rs.statuses = <<200>>
    /\ rs.accept_ranges
    /\ rs.body = <<0, 1>>

\* The specification's multi-range form: the unit, then two or more
\* comma-separated ranges, each digits*, one '-', digits*.
RECURSIVE Items(_)
Items(h) ==
    IF \A i \in 1..Len(h) : h[i] # "," THEN <<h>>
    ELSE LET i == CHOOSE j \in 1..Len(h) :
                     h[j] = "," /\ \A k \in 1..(j - 1) : h[k] # ","
         IN <<SubSeq(h, 1, i - 1)>> \o Items(SubSeq(h, i + 1, Len(h)))
IsRangeItem(p) ==
    /\ Cardinality({j \in 1..Len(p) : p[j] = "-"}) = 1
    /\ \A j \in 1..Len(p) : p[j] = "-" \/ IsDigit(p[j])
MultiRange(h) ==
    /\ Len(h) >= 1
    /\ h[1] = "U"
    /\ Len(Items(Tail(h))) >= 2
    /\ \A i \in 1..Len(Items(Tail(h))) : IsRangeItem(Items(Tail(h))[i])

\* the specification's example, bytes=0-10,20-30
Range_0_10_20_30 == <<"U", "0", "-", "1", "0", ",", "2", "0", "-", "3", "0">>

\* C12: a multi-range header (several comma-separated ranges) on an asset
\* whose file exists is never answered 206: the first status is 200, no
\* Content-Range is sent and, the client staying connected, the body is the
\* full file; so is bytes=0-10,20-30 on a 1000-byte file (computed by the
\* handler's reply function in the states where the server is idle).
C12_MultiRange ==
    /\ (ValidId /\ MultiRange(rq.hdr) /\ disk >= 0)
         => /\ rs.statuses[1] = 200
            /\ rs.content_range = <<>>
            /\ ~rq.hangup => IsFull(rs, disk)
    /\ ~rq.taken
         => /\ MultiRange(Range_0_10_20_30)
            /\ IsFull(MediaReply(Range_0_10_20_30, 1000, 1000, FALSE), 1000)

\* the shortest multi-range header, bytes=-,- , was answered with the full file
C12_Witness ==
    /\ ValidId
    /\ rq.hdr = <<"U", "-", ",", "-">>
    /\ MultiRange(rq.hdr)
    /\ ~rq.hangup
    /\ file_size = 2
    /\ disk = 2
    /\ rs.statuses = <<200>>
    /\ rs.body = <<0, 1>>


(***************************************************************************)
(* Failures of the generators, under Spec.                                 *)
(***************************************************************************)
\* No other thread has to do with the key of t's call: t is the server, which
\* runs after the pool is gone, or a task whose key no other task has.
Alone(t) ==
    \A u \in Threads \ {t} : preview_path(th[u].path) # preview_path(th[t].path)

PlaceholderPreview == Some("image/gif", Complete(Placeholder))

\* thread t returns from get_preview in this step
Returns(t) == th[t].pc \in {"exists1", "exists2"} /\ th'[t].pc \in {"idle", "done"}

\* C13: when the decoding of a video or animated asset fails (and the
\* placeholder's save does not), the generator does not raise: a call that is
\* alone on its key leaves the single-frame placeholder in the store under
\* the key and returns it as image/gif, which the server sends; and a request
\* that finds the placeholder in the store returns it without invoking the
\* generator again.
C13_VideoAbsorbed ==
    /\ [][\A t \in Threads :
            (Returns(t) /\ Alone(t) /\ PreviewExt(th[t].path) = "gif"
               /\ th[t].decodeFailed /\ ~th[t].saveFailed)
              => /\ th[t].invoked
                 /\ th'[t].result = PlaceholderPreview
                 /\ store'[preview_path(th[t].path)] = Complete(Placeholder)
                 /\ t = Server => response' = [status |-> 200, ctype |-> "image/gif",
                                               body |-> Placeholder, st |-> "complete"]]_vars
    /\ []((Returned(Server) /\ th[Server].found /\ th[Server].seen = Complete(Placeholder))
            => /\ ~th[Server].invoked
               /\ ~th[Server].decodeFailed
               /\ th[Server].result = PlaceholderPreview
               /\ response.body = Placeholder)

\* the second request for a video whose decoding failed at the first one is
\* served the placeholder from the store
C13_Witness ==
    /\ phase = "serve"
    /\ requests = 2
    /\ th[Server].pc = "idle"
    /\ th[Server].path = <<"b", "mp4">>
    /\ th[Server].found
    /\ ~th[Server].invoked
    /\ th[Server].seen = Complete(Placeholder)
    /\ th[Server].result = PlaceholderPreview
    /\ genCalls[preview_path(<<"b", "mp4">>)] = 1

\* C14: when the decoding of a static image fails, a call that is alone on
\* its key returns no preview and leaves no entry under the key (the store is
\* as the call found it), and the server answers with its own placeholder,
\* not with cached bytes.
C14_ImagePropagates ==
    [][\A t \in Threads :
         (Returns(t) /\ Alone(t) /\ PreviewExt(th[t].path) = "png" /\ th[t].decodeFailed)
           => /\ th[t].invoked
              /\ th'[t].result = None
              /\ store'[preview_path(th[t].path)] = Absent
              /\ t = Server => /\ store'[preview_path(th[t].path)] = th[t].seen
                               /\ response'.status = 200
                               /\ response'.ctype = "image/svg+xml"
                               /\ response'.body = <<"svg", "placeholder">>]_vars

\* a request for an undecodable image was answered with the SVG placeholder
C14_Witness ==
    /\ th[Server].pc = "idle"
    /\ th[Server].path = <<"a", "png">>
    /\ th[Server].decodeFailed
    /\ th[Server].result = None
    /\ store[preview_path(<<"a", "png">>)] = Absent
    /\ response.ctype = "image/svg+xml"

\* C15: when a preview was generated but its save failed, the call (alone on
\* its key) still returns the generated bytes, and no entry is published
\* under the key.
C15_WriteFailure ==
    [][\A t \in Threads :
         (Returns(t) /\ Alone(t) /\ th[t].invoked /\ ~th[t].decodeFailed /\ th[t].saveFailed)
           => /\ \E c \in {"v1", "v2"} :
                   th'[t].result = Some(PreviewMime(th[t].path),
                                        Complete(<<PreviewExt(th[t].path), c>>))
              /\ store'[preview_path(th[t].path)] = Absent]_vars


(***************************************************************************)
(* The cache builder's claims, under SpecWarm (C18 under Spec).            *)
(***************************************************************************)
\* the tasks build_cache submitted
Submitted == 1..Len(all_files(catalog))

\* task t has completed and its get_preview gave no preview
Failed(t) == th[t].pc = "done" /\ ~th[t].result.ok

\* C16: a generation failure of one asset during build_cache does not cancel
\* or fail the batch: once a task has failed, every submitted task still
\* comes to its completion, and the builder does not leave before that.
C16_FailureIsolation ==
    /\ (\E t \in Tasks : Failed(t)) ~> (\A u \in Submitted : th[u].pc = "done")
    /\ [][(\E t \in Tasks : Failed(t)) /\ phase' = "serve"
            => \A u \in Submitted : th[u].pc = "done"]_vars

\* a failed task was reported first, a task that generated its preview after it
C16_Witness ==
    /\ phase = "warm"
    /\ Len(progress) = 2
    /\ Failed(progress[1][2])
    /\ th[progress[2][2]].pc = "done"
    /\ th[progress[2][2]].invoked
    /\ th[progress[2][2]].result.ok

\* C17: build_cache terminates when every generation task does, only after
\* every submitted task has completed and was reported, and every task runs
\* once: a completed task stays completed, no task goes back to the queue or
\* enters get_preview a second time.
C17_Termination ==
    /\ (phase = "warm") ~> (phase = "serve")
    /\ [][(phase = "warm" /\ phase' = "serve")
            => /\ \A t \in Submitted : th[t].pc = "done"
               /\ Len(progress) = Len(all_files(catalog))
               /\ { progress[i][2] : i \in 1..Len(progress) } = Submitted]_vars
    /\ [][\A t \in Tasks :
            /\ th[t].pc = "done" => th'[t].pc \in {"done", "unused"}
            /\ th[t].pc # "queued" => th'[t].pc # "queued"
            /\ th'[t].pc = "exists1" => th[t].pc \in {"queued", "exists1"}]_vars

\* build_cache has returned after a batch of two keys, one generated, one failed
C17_Witness ==
    /\ phase = "serve"
    /\ requests = 0
    /\ Len(catalog) = 2
    /\ \E pp \in PreviewPaths : warmFailed[pp] /\ ~Exists(pp)
    /\ \E pp \in PreviewPaths : store[pp].st = "complete"

\* C18: an asset whose generation failed during the warming (its call logged
\* a failed save or returned no preview) is retried lazily: the first request
\* for its key after the warm invokes the generator.
C18_LazyRetry ==
    [][\A pp \in PreviewPaths :
         (phase = "serve" /\ warmFailed[pp] /\ ~returned[pp]
            /\ th[Server].pc = "exists1" /\ preview_path(th[Server].path) = pp
            /\ th'[Server].pc # "exists1")
           => /\ th'[Server].pc = "generate"
              /\ genCalls'[pp] = genCalls[pp] + 1]_vars

\* C19: the completed-count of build_cache's reports starts at 1 and grows by
\* 1 with each report, each report is of the future that completed first
\* among those not yet reported, and the last count is the number of
\* submitted tasks.
C19_Progress ==
    [][/\ (phase' = "warm" /\ progress' # progress)
            => progress' = Append(progress, <<Len(progress) + 1, Head(completedQ)>>)
       /\ (phase = "warm" /\ phase' = "serve")
            => (progress # <<>> /\ progress[Len(progress)][1] = Len(all_files(catalog)))]_vars


(***************************************************************************)
(* Asset ids outside the catalog, under SpecServer.                        *)
(***************************************************************************)
\* the id text names no asset: no integer, negative, or >= the catalog length
OutOfCatalog(idt) ==
    \/ ~IsIntText(idt)
    \/ IntText(idt) < 0
    \/ IntText(idt) >= Len(catalog)

\* C20: a GET /media/<id> or GET /preview/<id> whose id is outside the
\* catalog (negative, >= the catalog length, or no integer) is answered 404,
\* and no file is read and no preview is read or generated: the reply has no
\* body, get_preview is not entered, the store and the generators' counts
\* stay as they are.
C20_NotFound ==
    [][\A idt \in IdTexts :
         OutOfCatalog(idt)
           => /\ serve_media_preview(idt)
                   => /\ response' = [NoResponse EXCEPT !.status = 404]
                      /\ th'[Server] = Fresh("idle")
                      /\ store' = store
                      /\ genCalls' = genCalls
              /\ (~rq.taken /\ rq'.taken /\ rq'.id = idt)
                   => /\ rs'.statuses = <<404>>
                      /\ rs'.body = <<>>
                      /\ ~rs'.accept_ranges
                      /\ th' = th
                      /\ store' = store
                      /\ genCalls' = genCalls]_vars

\* both endpoints have answered 404 for an id outside the catalog
C20_Witness ==
    /\ requests >= 1
    /\ response.status = 404
    /\ rq.taken
    /\ OutOfCatalog(rq.id)
    /\ rs.statuses = <<404>>

(***************************************************************************)
(* Missing files, under SpecRange.                                         *)
(***************************************************************************)
\* C21: a GET /media/<id> for an asset of the catalog whose file is gone at
\* the request is answered 404 and nothing else (no 200 or 206 before it, no
\* body), whether its Range header is a valid range, malformed or absent.
C21_MissingFile ==
    (ValidId /\ disk < 0)
      => /\ rs.statuses = <<404>>
         /\ rs.body = <<>>
         /\ rs.content_range = <<>>

\* a valid range was asked of a file removed after the scan
C21_Witness ==
    /\ ValidId
    /\ disk < 0
    /\ file_size = 2
    /\ WellFormedSingle(rq.hdr)
    /\ rq.hdr = <<"U", "0", "-", "0">>
    /\ rs.statuses = <<404>>

(***************************************************************************)
(* Frame sampling, under SpecFrames.                                       *)
(***************************************************************************)
\* the call has computed its frame indices
Sampled == ev.pc \in {"read", "returned"}

\* C22: for a video of total >= N frames (N = 11), exactly N frame indices
\* are sampled, the sequence is non-decreasing, its first index is 0 and its
\* last is total-1; the indices are sought and read in that order.
C22_SampleEven ==
    (Sampled /\ ev.total_frames >= PREVIEW_FRAME_COUNT)
      => /\ Len(ev.frame_indices) = PREVIEW_FRAME_COUNT
         /\ \A k \in 1..(Len(ev.frame_indices) - 1) :
               ev.frame_indices[k] <= ev.frame_indices[k + 1]
         /\ ev.frame_indices[1] = 0
         /\ ev.frame_indices[Len(ev.frame_indices)] = ev.total_frames - 1
         /\ ev.reads = SubSeq(ev.frame_indices, 1, Len(ev.reads))
         /\ ev.pc = "returned" => ev.reads = ev.frame_indices

\* a video of 13 frames was sampled at its 11 indices and every frame read
C22_Witness ==
    /\ ev.pc = "returned"
    /\ ev.total_frames = 13
    /\ ev.frame_indices = <<0, 1, 2, 3, 4, 6, 7, 8, 9, 10, 12>>
    /\ ev.frames = ev.frame_indices

\* C23: for a video of 1 <= total < N frames the sampled indices are exactly
\* 0..total-1 in increasing order, each once (the single index 0 for
\* total = 1), and they are sought and read in that order.
C23_SampleAll ==
    (Sampled /\ 1 <= ev.total_frames /\ ev.total_frames < PREVIEW_FRAME_COUNT)
      => /\ Len(ev.frame_indices) = ev.total_frames
         /\ \A k \in 1..ev.total_frames : ev.frame_indices[k] = k - 1
         /\ ev.total_frames = 1 => ev.frame_indices = <<0>>
         /\ ev.reads = SubSeq(ev.frame_indices, 1, Len(ev.reads))
         /\ ev.pc = "returned" => ev.reads = ev.frame_indices

\* a video of 3 frames was sampled at 0, 1, 2
C23_Witness ==
    /\ ev.pc = "returned"
    /\ ev.total_frames = 3
    /\ ev.frame_indices = <<0, 1, 2>>
    /\ ev.frames = <<0, 1, 2>>

\* C24: for a video that opens and whose frame count is <= 0 the extraction
\* fails with NoFrames, and no frame index was computed, sought or read.
C24_NoFrames ==
    /\ (ev.opened /\ ev.count <= 0 /\ ev.pc \notin {"open", "count"})
         => /\ ev.pc = "raised"
            /\ ev.raised = "NoFrames"
            /\ ev.frame_indices = <<>>
            /\ ev.reads = <<>>
            /\ ev.frames = <<>>
    /\ ev.raised = "NoFrames" => ev.count <= 0

\* the extraction of a video of 0 frames has failed
C24_Witness ==
    /\ ev.pc = "raised"
    /\ ev.opened
    /\ ev.count = 0
    /\ ev.raised = "NoFrames"

(***************************************************************************)
(* The geometry of the previews, under SpecGeometry.                       *)
(***************************************************************************)
\* C25: for every source size (srcW >= 1, srcH >= 1) generate_preview saves,
\* and resize_and_crop_frame returns, an image of exactly width 320 and
\* height 200, and neither raises on the way.
C25_FixedSize ==
    /\ gp.pc \in {"out", "saved", "returned"} => gp.size = <<320, 200>>
    /\ (gp.pc # "none" /\ gp.src[1] >= 1 /\ gp.src[2] >= 1) => gp.pc # "raised"

\* a 312x195 image, resized to 320x199 only, was saved as 320x200
C25_Witness ==
    /\ gp.pc = "saved"
    /\ gp.src = <<312, 195>>
    /\ gp.resized = <<320, 199>>
    /\ gp.box = <<0, 0 - 1, 320, 199>>
    /\ gp.size = <<320, 200>>

(***************************************************************************)
(* The kind of a preview and its key, under Spec.                          *)
(***************************************************************************)
\* the extensions of the catalog (scan_for_media_files), in both cases
MediaExts ==
    {"png", "jpg", "jpeg", "gif", "mp4", "m4v", "PNG", "JPG", "JPEG", "GIF", "MP4", "M4V"}
\* the kinds as the specification names them
Animated(e) == e \in {"mp4", "m4v", "gif", "MP4", "M4V", "GIF"}
Static(e) == e \in {"png", "jpg", "jpeg", "PNG", "JPG", "JPEG"}
\* the mime type that goes with the extension of a store file
MimeOfExt(x) == CASE x = "gif" -> "image/gif" [] x = "png" -> "image/png" [] OTHER -> "none"

\* C26: get_preview returns image/gif and uses the store name <key>.gif
\* exactly when the asset is a video (.mp4/.m4v) or an animated image (.gif),
\* and image/png with the store name <key>.png for the static images
\* (.png/.jpg/.jpeg); the mime type of a returned payload is that of the
\* extension of the store file it was read from, and the bytes of a complete
\* file are of that format.
C26_Dispatch ==
    /\ \A t \in Threads :
         (Returned(t) /\ th[t].result.ok)
           => LET e == th[t].path[2]
                  pp == preview_path(th[t].path)
              IN /\ pp[1] = md5(th[t].path)
                 /\ th[t].result.mime = "image/gif" <=> Animated(e)
                 /\ th[t].result.mime = "image/png" <=> Static(e)
                 /\ Animated(e) => pp[2] = "gif"
                 /\ Static(e) => pp[2] = "png"
                 /\ th[t].result.mime = MimeOfExt(pp[2])
                 /\ th[t].result.st = "complete" => th[t].result.data[1] = pp[2]
    /\ \A e \in MediaExts :
         LET p == <<"a", e>>
         IN /\ Animated(e) => (PreviewMime(p) = "image/gif" /\ preview_path(p) = <<md5(p), "gif">>)
            /\ Static(e) => (PreviewMime(p) = "image/png" /\ preview_path(p) = <<md5(p), "png">>)
            /\ Animated(e) \/ Static(e)

\* a request for a.png was served a PNG, the next one, for c.gif, a GIF
C26_Witness ==
    /\ requests = 2
    /\ th[Server].pc = "idle"
    /\ th[Server].path = <<"c", "gif">>
    /\ th[Server].invoked
    /\ th[Server].result = Some("image/gif", Complete(<<"gif", "v1">>))
    /\ store[<<md5(<<"a", "png">>), "png">>] = Complete(<<"png", "v1">>)
    /\ store[<<md5(<<"c", "gif">>), "gif">>] = Complete(<<"gif", "v1">>)

\* C27: the key is derived from the path alone, so once a preview has been
\* published under it, whatever the file at that path holds later (other
\* content, or nothing decodable), a request for the path finds the entry at
\* its lookup, does not invoke the generator, leaves the store as it is and
\* returns the published preview.
C27_Stale ==
    [][LET pp == preview_path(th[Server].path)
       IN /\ (th[Server].pc = "exists1" /\ store[pp].st = "complete"
                /\ th'[Server].pc # "exists1")
              => /\ th'[Server].pc = "exists2"
                 /\ th'[Server].found
                 /\ ~th'[Server].invoked
                 /\ th'[Server].path = th[Server].path
                 /\ genCalls' = genCalls
                 /\ store' = store
          /\ (Returns(Server) /\ th[Server].found /\ th[Server].seen.st = "complete")
              => /\ th'[Server].result = Some(PreviewMime(th[Server].path), th[Server].seen)
                 /\ response'.body = th[Server].seen.data
                 /\ store'[pp] = th[Server].seen
                 /\ genCalls' = genCalls]_vars

\* the first request published the preview of the file's first content; the
\* second request found the file replaced and was served the first preview
C27_Witness ==
    /\ phase = "serve"
    /\ requests = 2
    /\ th[Server].pc = "idle"
    /\ th[Server].path = <<"a", "png">>
    /\ th[Server].content = "v2"
    /\ th[Server].found
    /\ ~th[Server].invoked
    /\ th[Server].result = Some("image/png", Complete(<<"png", "v1">>))
    /\ genCalls[preview_path(<<"a", "png">>)] = 1

(***************************************************************************)
(* Requests for unrelated keys, under Spec.                                *)
(***************************************************************************)
\* C28: a preview request is delayed only by a generation for its own key:
\* while the generation of key A is under way, a request for another asset of
\* the catalog, of key B, can be taken by the server.
C28_NoUnrelatedWait ==
    \A idt \in IdTexts :
        (/\ phase = "serve"
         /\ th[Server].pc \in {"generate", "write"}
         /\ requests < MaxRequests
         /\ ~rq.taken
         /\ IsIntText(idt) /\ InCatalog(IntText(idt))
         /\ preview_path(media_files(IntText(idt))) # preview_path(th[Server].path))
        => ENABLED serve_media_preview(idt)

(***************************************************************************)
(* The range file server and the previews store, under SpecEndpoints.      *)
(***************************************************************************)
\* C29: serving GET /media/<id>, whatever its Range header and its outcome,
\* bypasses the cache: from the step that takes the request to the end of
\* the request no entry of the previews store is created or modified, no
\* generator is invoked, get_preview is not entered (nothing of the store is
\* read), and the body is made of bytes of the file.
C29_Bypass ==
    [][(rq.taken \/ rq'.taken)
         => /\ store' = store
            /\ genCalls' = genCalls
            /\ th' = th
            /\ returned' = returned
            /\ response' = response
            /\ \A i \in 1..Len(rs'.body) : rs'.body[i] \in 0..(disk - 1)]_vars

\* the preview of the asset is in the store, made by one generation, and the
\* asset's bytes were then served as a range
C29_Witness ==
    /\ ValidId
    /\ rs.statuses = <<206>>
    /\ rs.body = <<0>>
    /\ requests >= 1
    /\ th[Server].pc = "idle"
    /\ store[preview_path(media_files(IntText(rq.id)))].st = "complete"
    /\ genCalls[preview_path(media_files(IntText(rq.id)))] = 1

(***************************************************************************)
(* fix_file_types, under SpecFix.                                          *)
(***************************************************************************)
\* C30: when process_directory runs with dry_run set, with or without prune,
\* no file of the tree is renamed or removed: at every point of the run the
\* directory holds the paths, and the contents, it held before the run; the
\* counts of renamed and removed files stay 0.
C30_DryRun ==
    (fx.pc # "none" /\ fx.dry_run)
      => /\ tree = fx.before
         /\ { p \in FixPaths : tree[p] # "absent" } = { p \in FixPaths : fx.before[p] # "absent" }
         /\ fx.files_renamed = 0
         /\ fx.files_removed = 0

\* a dry run with prune has passed a file to rename and a file to remove
C30_Witness ==
    /\ fx.pc = "done"
    /\ fx.dry_run
    /\ fx.prune
    /\ fx.files_processed = 2
    /\ fx.before[<<"p", "jpg">>] = "png"
    /\ fx.before[<<"q", "png">>] = "html"
    /\ fx.before[<<"p", "png">>] = "absent"
    /\ tree = fx.before

(***************************************************************************)
(* Rounding, under SpecFrames and SpecGeometry.                            *)
(***************************************************************************)
\* n is an integer nearest to the quotient a / b (b > 0): whatever way a
\* rounding takes the halves, round(a / b) is such an n
Nearest(n, a, b) ==
    LET d == IF n * b >= a THEN n * b - a ELSE a - n * b
    IN 2 * d <= b

\* C31: for total >= N the i-th sampled frame index (i in 0..N-1) is
\* round((i/(N-1)) * (total-1)).
C31_RoundedIndex ==
    (Sampled /\ ev.total_frames >= PREVIEW_FRAME_COUNT)
      => \A k \in 1..Len(ev.frame_indices) :
            Nearest(ev.frame_indices[k], (k - 1) * (ev.total_frames - 1),
                    PREVIEW_FRAME_COUNT - 1)

\* half of a difference d, the odd unit going either way
Half(h, d) == 2 * h \in {d - 1, d, d + 1}

\* C32: for every source size, if srcW/srcH > 320/200 the image is resized
\* to (round(srcW*200/srcH), 200) and cropped at left = (newW-320)/2,
\* otherwise it is resized to (320, round(srcH*320/srcW)) and cropped at
\* top = (newH-200)/2, in generate_preview as in resize_and_crop_frame.
C32_RoundedGeometry ==
    LET src_w == gp.src[1]
        src_h == gp.src[2]
    IN /\ gp.pc \in {"crop", "out", "saved", "returned"}
            => IF src_w * 200 > src_h * 320
               THEN /\ gp.resized[2] = 200
                    /\ Nearest(gp.resized[1], src_w * 200, src_h)
               ELSE /\ gp.resized[1] = 320
                    /\ Nearest(gp.resized[2], src_h * 320, src_w)
       /\ gp.pc \in {"out", "saved", "returned"}
            => IF src_w * 200 > src_h * 320
               THEN /\ Half(gp.box[1], gp.resized[1] - 320)
                    /\ gp.box = <<gp.box[1], 0, gp.box[1] + 320, 200>>
               ELSE /\ Half(gp.box[2], gp.resized[2] - 200)
                    /\ gp.box = <<0, gp.box[2], 320, gp.box[2] + 200>>

\* C33: the assembled video preview has one frame per sampled index, in the
\* sampled order: exactly N = 11 frames for total >= N and exactly total
\* frames for 1 <= total < N, whatever the outcome of the single reads.
C33_FramePerIndex ==
    (ev.saved /\ ev.opened /\ ev.total_frames >= 1)
      => /\ ~ev.placeholder
         /\ ev.processed_frames = ev.frame_indices
         /\ Len(ev.processed_frames) =
               (IF ev.total_frames >= PREVIEW_FRAME_COUNT THEN PREVIEW_FRAME_COUNT
                ELSE ev.total_frames)

(***************************************************************************)
(* The headers and the statuses of a /media response, under SpecRange.     *)
(***************************************************************************)
\* C34: for every 200 or 206 response of GET /media/<id> the Content-Length
\* header is the number of body bytes written, also when the size of the
\* file on disk is no longer the size recorded at the scan (the client
\* staying connected, so that the whole body is written).
C34_ContentLength ==
    (ValidId /\ ~rq.hangup /\ rs.statuses # <<>> /\ rs.statuses[1] \in {200, 206})
      => rs.content_length = Len(rs.body)

\* C35: each GET /media/<id> request emits exactly one response status, one
\* of 200, 206 and 404: after a 200 or 206 status line and its headers no
\* second status is sent, also when writing the body fails.
C35_OneStatus ==
    rq.taken
      => /\ Len(rs.statuses) = 1
         /\ rs.statuses[1] \in {200, 206, 404}

(***************************************************************************)
(* Renaming, under SpecFix.                                                *)
(***************************************************************************)
\* the file the step of the loop has dealt with
Processed(f) == f \in fx.todo /\ f \notin fx'.todo

\* C36: rename_file never replaces an existing file.  If the target path
\* (the base name with the detected extension) exists, it returns
\* (False, target, "target_exists") and the source and the target stay as
\* they are; on success the source path is gone and the target holds the
\* source's content.  So no path of the directory ever gets other content
\* than it had, and a file that process_directory skips or renames leaves
\* every other file alone.
C36_RenameSafe ==
    /\ [](\A old \in FixPaths, ext \in {"jpg", "png"}, oserr \in BOOLEAN :
            tree[old] # "absent"
              => LET r == rename_file(tree, old, ext, oserr)
                     target == <<old[1], ext>>
                 IN /\ tree[target] # "absent"
                         => /\ ~r.success
                            /\ r.new_path = target
                            /\ r.reason = "target_exists"
                            /\ r.tree = tree
                    /\ r.success
                         => /\ tree[target] = "absent"
                            /\ r.new_path = target
                            /\ r.tree[old] = "absent"
                            /\ r.tree[target] = tree[old]
                            /\ \A q \in FixPaths \ {old, target} : r.tree[q] = tree[q]
                    /\ ~r.success => r.tree = tree)
    /\ [][/\ \A q \in FixPaths : tree[q] # "absent" => tree'[q] \in {tree[q], "absent"}
          /\ \A f \in FixPaths :
               LET target == <<f[1], detect_file_type(tree[f])>>
               IN /\ (Processed(f) /\ fx'.last = <<"SKIPPED", f>>)
                       => (tree' = tree /\ tree[target] # "absent")
                  /\ (Processed(f) /\ fx'.last = <<"RENAMED", f>>)
                       => /\ tree[target] = "absent"
                          /\ tree'[f] = "absent"
                          /\ tree'[target] = tree[f]
                          /\ \A q \in FixPaths \ {f, target} : tree'[q] = tree[q]]_vars

\* p.jpg holds a PNG and p.png exists: the run has skipped p.jpg and both
\* files are as they were
C36_Witness ==
    /\ fx.pc = "done"
    /\ ~fx.dry_run
    /\ fx.last = <<"SKIPPED", <<"p", "jpg">>>>
    /\ fx.before[<<"p", "jpg">>] = "png"
    /\ fx.before[<<"p", "png">>] = "jpg"
    /\ tree = fx.before

====
